---- MODULE Spec2Model ----
(***************************************************************************)
(* Gantry control and scan orchestration of the plant watering robot:      *)
(*   src/cv_work/scan_water.py  - serial protocol client, PlantDebouncer,  *)
(*                                run_scan                                 *)
(*   src/app/server/server.py   - clamped cmd_move_xy, jog / home tasks,   *)
(*                                execute_scan, scheduler, dispatcher      *)
(*                                                                         *)
(* Lengths are millimetres (all values the code uses are whole numbers of  *)
(* millimetres, so the float arithmetic is exact), debouncer times are     *)
(* tenths of a second.  A serial line is the sequence of its words.        *)
(***************************************************************************)
EXTENDS Integers, Sequences, FiniteSets, TLC

\* ------------------------------------------------------------------------
\* Program constants
\* ------------------------------------------------------------------------
GANTRY_MAX_X_MM == 400
GANTRY_MAX_Y_MM == 400
JOG_STEP_MM == 50
STEP_X_MM == 75
STEP_Y_MM == 75
COLS == 5
ROWS == 5
WATER_MS == 5000
ON_HITS == 3
OFF_MISSES == 6
COOLDOWN_S == 15

\* ------------------------------------------------------------------------
\* Bounds of the model
\* ------------------------------------------------------------------------
\* fault lines the device emits in one run
MaxFaults == 1
\* waits for a reply of the device that run out of time
MaxTimeouts == 1
\* camera frames one dwell can see before its duration is over
MaxFrames == 4
\* observations fed to the debouncer of SpecDeb
MaxObs == 12
\* tenths of a second SpecDeb lets pass
MaxTime == 16
\* messages the client sends
MaxMsgs == 2
\* the last day and the last minute of a day the clock reaches
MaxDate == 0
MaxMinute == 1
\* the grid of the scans the server runs
GridRows == 1
GridCols == 2
\* frames the camera's reader thread captures
MaxCaptures == 4

VARIABLES
    gantry_pos,     \* server.py gantry_pos: <<x, y>>
    rx,             \* lines the device has written and the host has not read
    dev,            \* the device: the command it executes, whether accepted
    faults,         \* fault lines the device has emitted so far
    wire,           \* the last line the host wrote to the serial port
    tr,             \* per caller: the cmd_move_xy / cmd_pump_on call it is in
    deb,            \* a PlantDebouncer fed directly (SpecDeb)
    now,            \* time.time()
    dstat,          \* history of the directly fed debouncer: observations fed,
                    \* how many of them true from the start, events reported,
                    \* the observation and the time of the first and the last
                    \* event, the last observation, and the current and the longest run of false
                    \* observations since the last event (up to OFF_MISSES)
    sc,             \* per worker thread: its run_scan execution
    scan_cancel,    \* server.py scan_cancel / run_scan's cancel_event
    rows, cols,     \* scan_water.py ROWS, COLS as the run in hand has them
    cam,            \* server.py cam, the ThreadedCamera: _ok, _frame, and
                    \* (history) the captures made, the last successful one,
                    \* and what read() last returned to each consumer
    progress,       \* per worker: messages handed to progress_callback, unread
    hist,           \* history: callers that had a fault line emitted while they
                    \* awaited a reply, those that sent a command after it,
                    \* the waits that have timed out, the console line of the
                    \* scheduler's last tick, the scans it started per date
    scan_in_progress,   \* server.py global
    move_in_progress,   \* server.py global
    pending_direction,  \* server.py global: "None" or a direction
    task,           \* the execute_move / execute_home tasks
    es,             \* the execute_scan / execute_scheduled_scan coroutines
    conn,           \* the client's connection and its handle_connection: whether
                    \* open, its scan_task, the direct answer last sent on it
                    \* and how many have been sent,
                    \* and (history) whether the run_scan of its scan_task was
                    \* under way when the client went away
    msgs,           \* messages the client may still send
    clock,          \* datetime.now(): date and HH:MM
    schedule_data   \* server.py global: scheduled times and watered_log

serialVars == <<rx, dev, faults, wire>>
debVars == <<deb, now, dstat>>
gridVars == <<rows, cols, cam>>
serverVars ==
    <<scan_in_progress, move_in_progress, pending_direction, task, es, conn,
      msgs, clock, schedule_data>>
vars ==
    <<gantry_pos, rx, dev, faults, wire, tr, deb, now, dstat, sc, scan_cancel,
      rows, cols, cam, progress, hist, scan_in_progress, move_in_progress,
      pending_direction, task, es, conn, msgs, clock, schedule_data>>

\* what the serial layer and the device leave alone
aboveSerial ==
    <<gantry_pos, debVars, sc, scan_cancel, gridVars, progress, serverVars>>

\* Callers of the serial commands: executor threads of the two jog/home task
\* slots, and run_scan worker threads (a specification follows s1 alone unless
\* it says otherwise: the other slot is then off).
Workers == {"s1", "s2"}
Callers == {"j1", "j2"} \cup Workers

Abs(a) == IF a < 0 THEN -a ELSE a
Max2(a, b) == IF a > b THEN a ELSE b
Min2(a, b) == IF a < b THEN a ELSE b

\* abs(v) < 0.01 and abs(v) > 0.01 on whole millimetres
LtEps(v) == Abs(v) * 100 < 1
GtEps(v) == Abs(v) * 100 > 1

\* ------------------------------------------------------------------------
\* Serial protocol client (scan_water.py)
\* ------------------------------------------------------------------------
OkLine(op) == IF op = "MOVE" THEN <<"OK", "MOVE">> ELSE <<"OK", "PUMP", "ON">>
DoneLine(op) == IF op = "MOVE" THEN <<"DONE", "MOVE">> ELSE <<"DONE", "PUMP">>
FaultLine == <<"FAULT", "LIMIT">>

StartsWith(ln, pre) ==
    Len(ln) >= Len(pre) /\ SubSeq(ln, 1, Len(pre)) = pre

\* wait_for: ln.startswith("ERR") or ln.startswith("FAULT")
IsFaultLine(ln) == StartsWith(ln, <<"ERR">>) \/ StartsWith(ln, <<"FAULT">>)

\* the predicates cmd_move_xy and cmd_pump_on hand to wait_for
AcceptPred(op, ln) == StartsWith(ln, OkLine(op))
CompletePred(op, ln) == ln = DoneLine(op)
Predicate(ph, op, ln) ==
    IF ph = "accept" THEN AcceptPred(op, ln) ELSE CompletePred(op, ln)

\* wait_for's inner loop over one read_lines() result: the first line that is a
\* fault raises, the first that satisfies the predicate returns; whatever
\* follows it in the list is never looked at.
RECURSIVE WaitForBatch(_, _, _)
WaitForBatch(batch, ph, op) ==
    IF batch = <<>> THEN "none"
    ELSE IF IsFaultLine(Head(batch)) THEN "RuntimeError"
    ELSE IF Predicate(ph, op, Head(batch)) THEN "match"
    ELSE WaitForBatch(Tail(batch), ph, op)

\* A caller's call: ph is where it stands (idle, accept, complete, ret), res what
\* it returned or raised, blocked whether the clamped move returned without
\* sending; faulted and answered are history: the device emitted a fault line
\* during the call before it emitted the completion line of the call's
\* command; the device emitted that completion line during the call.
IdleCall ==
    [ph |-> "idle", op |-> "-", res |-> "-", blocked |-> FALSE,
     faulted |-> FALSE, answered |-> FALSE]

\* send_line: the line goes out, the device starts on the command
SendLine(c, line, op) ==
    /\ wire' = line
    /\ dev' = [op |-> op, ack |-> FALSE]
    /\ hist' = IF c \in hist.faultInWait
               THEN [hist EXCEPT !.sentAfter = @ \cup {c}]
               ELSE hist

\* server.py cmd_move_xy, lines 76-82: the clamp, under gantry_lock
ClampXNoUpper(x, dx) == Max2(0, x + dx)
ClampX(x, dx) == Max2(0, Min2(GANTRY_MAX_X_MM, x + dx))
ClampYNoLower(y, dy) == Min2(GANTRY_MAX_Y_MM, y + dy)
ClampY(y, dy) == Max2(0, Min2(GANTRY_MAX_Y_MM, y + dy))

\* server.py cmd_move_xy line 84
IsBlocked(adx, ady) == LtEps(adx) /\ LtEps(ady)

\* the line cmd_move_xy puts on the wire (server.py line 93 into
\* scan_water.py line 169)
MoveLineRequested(dx, dy, adx, ady) == <<"MOVE", "XY", dx, dy>>
MoveLine(dx, dy, adx, ady) == <<"MOVE", "XY", adx, ady>>

\* what the clamped cmd_move_xy returns when the move is blocked (line 87: a
\* bare return, the value a completed move returns too)
BlockedResult == "None"

\* server.py cmd_move_xy up to the first wait_for of the raw command: clamp and
\* update the tracked position, return at once when blocked, else send MOVE.
CmdMoveXY(c, dx, dy) ==
    LET new_x == ClampX(gantry_pos[1], dx)
        new_y == ClampY(gantry_pos[2], dy)
        actual_dx == new_x - gantry_pos[1]
        actual_dy == new_y - gantry_pos[2]
        call == [IdleCall EXCEPT !.op = "MOVE"]
    IN  /\ gantry_pos' = <<new_x, new_y>>
        /\ IF IsBlocked(actual_dx, actual_dy)
           THEN /\ tr' = [tr EXCEPT ![c] = [call EXCEPT !.ph = "ret",
                                                       !.res = BlockedResult,
                                                       !.blocked = TRUE]]
                /\ UNCHANGED <<wire, dev, hist>>
           ELSE /\ tr' = [tr EXCEPT ![c] = [call EXCEPT !.ph = "accept"]]
                /\ SendLine(c, MoveLine(dx, dy, actual_dx, actual_dy), "MOVE")

\* scan_water.py cmd_pump_on line 186
CmdPumpOn(c, ms) ==
    /\ tr' = [tr EXCEPT ![c] = [IdleCall EXCEPT !.op = "PUMP", !.ph = "accept"]]
    /\ SendLine(c, <<"PUMP", "ON", ms>>, "PUMP")

\* One pass of wait_for's loop that read something: read_lines drains what has
\* arrived, the batch is scanned.  A match while awaiting acceptance goes on to
\* the wait for completion; a match there ends the command.
WaitForPoll(c) ==
    /\ tr[c].ph \in {"accept", "complete"}
    /\ rx # <<>>
    /\ rx' = <<>>
    /\ LET got == WaitForBatch(rx, tr[c].ph, tr[c].op)
       IN  tr' = [tr EXCEPT ![c] =
                 IF got = "RuntimeError"
                 THEN [@ EXCEPT !.ph = "ret", !.res = "RuntimeError"]
                 ELSE IF got = "match"
                 THEN IF @.ph = "accept"
                      THEN [@ EXCEPT !.ph = "complete"]
                      ELSE [@ EXCEPT !.ph = "ret", !.res = "None"]
                 ELSE @]
    /\ UNCHANGED <<dev, faults, wire, hist, aboveSerial>>

\* wait_for's time runs out: every poll so far found nothing it waited for, and
\* nothing is left unread (a line that arrives later is read by a later call).
WaitForTimeout(c) ==
    /\ tr[c].ph \in {"accept", "complete"}
    /\ rx = <<>>
    /\ hist.timeouts < MaxTimeouts
    /\ tr' = [tr EXCEPT ![c] = [@ EXCEPT !.ph = "ret", !.res = "TimeoutError"]]
    /\ hist' = [hist EXCEPT !.timeouts = @ + 1]
    /\ UNCHANGED <<serialVars, aboveSerial>>

\* ------------------------------------------------------------------------
\* The device (the firmware is not part of the repository): it answers the
\* command it last received with its acceptance line and then its
\* completion line, as late as it likes or never, and may report a fault at
\* any moment.
\* ------------------------------------------------------------------------
DeviceAccept ==
    /\ dev.op # "none" /\ ~dev.ack
    /\ rx' = Append(rx, OkLine(dev.op))
    /\ dev' = [dev EXCEPT !.ack = TRUE]
    /\ UNCHANGED <<faults, wire, tr, hist, aboveSerial>>

DeviceComplete ==
    /\ dev.op # "none" /\ dev.ack
    /\ rx' = Append(rx, DoneLine(dev.op))
    /\ dev' = [op |-> "none", ack |-> FALSE]
    /\ tr' = [c \in Callers |->
                 IF tr[c].ph \in {"accept", "complete"} /\ tr[c].op = dev.op
                 THEN [tr[c] EXCEPT !.answered = TRUE]
                 ELSE tr[c]]
    /\ UNCHANGED <<faults, wire, hist, aboveSerial>>

DeviceFault ==
    /\ faults < MaxFaults
    /\ rx' = Append(rx, FaultLine)
    /\ faults' = faults + 1
    /\ hist' = [hist EXCEPT !.faultInWait =
                    @ \cup {c \in Callers : tr[c].ph \in {"accept", "complete"}}]
    /\ tr' = [c \in Callers |->
                 IF tr[c].ph \in {"accept", "complete"} /\ dev.op # "none"
                 THEN [tr[c] EXCEPT !.faulted = TRUE]
                 ELSE tr[c]]
    /\ UNCHANGED <<dev, wire, aboveSerial>>

\* ------------------------------------------------------------------------
\* PlantDebouncer (scan_water.py)
\* ------------------------------------------------------------------------
CarriedDebouncer ==
    [state_on |-> FALSE, hit_count |-> 1, miss_count |-> 0, last_trigger |-> 0]

NewDebouncer ==
    [state_on |-> FALSE, hit_count |-> 0, miss_count |-> 0, last_trigger |-> 0]

\* the Off -> On condition of update (lines 229-231)
TriggerCondLate(d, t) ==
    /\ ~d.state_on
    /\ d.hit_count > ON_HITS
    /\ t - d.last_trigger >= COOLDOWN_S

TriggerCondNoCooldown(d, t) ==
    /\ ~d.state_on
    /\ d.hit_count >= ON_HITS

TriggerCond(d, t) ==
    /\ ~d.state_on
    /\ d.hit_count >= ON_HITS
    /\ t - d.last_trigger >= COOLDOWN_S

\* the counters of update (lines 221-226)
CountNoReset(d, plant_present) ==
    IF plant_present
    THEN [d EXCEPT !.hit_count = @ + 1]
    ELSE [d EXCEPT !.miss_count = @ + 1, !.hit_count = 0]

Count(d, plant_present) ==
    IF plant_present
    THEN [d EXCEPT !.hit_count = @ + 1, !.miss_count = 0]
    ELSE [d EXCEPT !.miss_count = @ + 1, !.hit_count = 0]

\* the On -> Off condition of update (line 237)
ResetCondEarly(d) == d.state_on /\ d.miss_count >= OFF_MISSES - 1
ResetCond(d) == d.state_on /\ d.miss_count >= OFF_MISSES

\* PlantDebouncer.update(plant_present) called at time t: the debouncer after
\* the call and the value returned
DebUpdate(d, plant_present, t) ==
    LET d1 == Count(d, plant_present)
    IN  IF TriggerCond(d1, t)
        THEN [deb |-> [d1 EXCEPT !.state_on = TRUE, !.last_trigger = t],
              triggered |-> TRUE]
        ELSE IF ResetCond(d1)
        THEN [deb |-> [d1 EXCEPT !.state_on = FALSE], triggered |-> FALSE]
        ELSE [deb |-> d1, triggered |-> FALSE]

\* time.time() counts from 1970: no run starts before COOLDOWN_S has passed
StartTime == COOLDOWN_S

\* one observation fed to the debouncer
DebObserve ==
    /\ dstat.n < MaxObs
    /\ \E plant_present \in BOOLEAN :
        LET u == DebUpdate(deb, plant_present, now)
        IN  /\ deb' = u.deb
            /\ dstat' =
                 [n |-> dstat.n + 1,
                  streak |-> IF plant_present /\ dstat.streak = dstat.n
                             THEN dstat.streak + 1 ELSE dstat.streak,
                  events |-> dstat.events + (IF u.triggered THEN 1 ELSE 0),
                  firstAt |-> IF u.triggered /\ dstat.events = 0
                              THEN dstat.n + 1 ELSE dstat.firstAt,
                  lastAt |-> IF u.triggered THEN now ELSE dstat.lastAt,
                  last |-> IF plant_present THEN "hit" ELSE "miss",
                  missNow |-> IF plant_present \/ u.triggered THEN 0
                              ELSE Min2(OFF_MISSES, dstat.missNow + 1),
                  missMax |-> IF u.triggered THEN 0
                              ELSE IF plant_present THEN dstat.missMax
                              ELSE Max2(dstat.missMax,
                                        Min2(OFF_MISSES, dstat.missNow + 1))]
    /\ UNCHANGED <<gantry_pos, serialVars, tr, now, sc, scan_cancel, gridVars, serverVars,
                   progress, hist>>

\* a tenth of a second passes
ClockTick ==
    /\ now < StartTime + MaxTime
    /\ now' = now + 1
    /\ UNCHANGED <<gantry_pos, serialVars, tr, deb, dstat, sc, scan_cancel,
                   gridVars, serverVars, progress, hist>>

\* ------------------------------------------------------------------------
\* run_scan (scan_water.py), with cmd_move_xy as server.py patches it in
\* ------------------------------------------------------------------------
IdleScan ==
    [pc |-> "idle", r |-> 0, ci |-> 0, cells_scanned |-> 0, plants_found |-> 0,
     cancelled |-> FALSE, error |-> "None", cb |-> "none",
     \* history: cell iterations begun, their number when the cancel flag was
     \* set (-1: not set), the cells observed, the moves requested
     started |-> 0, cancelAt |-> -1, visited |-> <<>>, requested |-> <<>>]

\* run_scan is entered: lines 312-328
StartedScan(cb) == [IdleScan EXCEPT !.pc = "rowcheck", !.cb = cb]

\* report(msg): the message goes to progress_callback; execute_scan's
\* on_progress queues it (a queue execute_scan has left is never read again,
\* what is put there is not kept), execute_scheduled_scan's prints it
Report(w, msg) ==
    progress' = IF sc[w].cb = "queue" /\ es[w].pc = "running"
                THEN [progress EXCEPT ![w] = Append(@, msg)]
                ELSE progress

\* is_cancelled()
IsCancelledNever == FALSE
IsCancelled == scan_cancel

\* column of the ci-th cell of row r, and the row's x step (lines 336-341)
ColOf(r, ci) == IF r % 2 = 0 THEN ci ELSE cols - 1 - ci
XStepNoFlip(r) == STEP_X_MM
XStep(r) == IF r % 2 = 0 THEN STEP_X_MM ELSE -STEP_X_MM

\* the move that brings the scan to the ci-th cell of row r (lines 349-352)
CellMove(r, ci) == IF ci > 0 THEN <<XStep(r), 0>> ELSE <<0, STEP_Y_MM>>

\* lines 369-379: the loops are left, the result is reported and returned
ScanReturnUncancelled(w, cancelled) ==
    /\ sc' = [sc EXCEPT ![w] = [@ EXCEPT !.pc = "done", !.cancelled = FALSE]]
    /\ Report(w, "finished")

ScanReturn(w, cancelled) ==
    /\ sc' = [sc EXCEPT ![w] = [@ EXCEPT !.pc = "done", !.cancelled = cancelled]]
    /\ Report(w, IF cancelled THEN "cancelled" ELSE "finished")

\* lines 381-388: TimeoutError or RuntimeError out of a move or the pump
ScanFail(w, e) ==
    /\ sc' = [sc EXCEPT ![w] = [@ EXCEPT !.pc = "done", !.cancelled = FALSE,
                                          !.error = e]]
    /\ Report(w, "error")

\* lines 354-355: the cell is counted and reported, its dwell begins
EnterCell(w, s) ==
    /\ sc' = [sc EXCEPT ![w] =
                 [s EXCEPT !.pc = "dwell", !.cells_scanned = @ + 1,
                           !.visited = Append(@, <<s.r, ColOf(s.r, s.ci)>>)]]
    /\ Report(w, "checking")

\* the dwell is over with nothing found, or the pump is done: next cell
NextCell(w) ==
    sc' = [sc EXCEPT ![w] = [@ EXCEPT !.pc = "cellcheck", !.ci = @ + 1]]

\* head of `for r in range(ROWS)` and the row's cancellation check
ScanRowCheck(w) ==
    /\ sc[w].pc = "rowcheck"
    /\ IF sc[w].r >= rows THEN ScanReturn(w, FALSE)
       ELSE IF IsCancelled THEN ScanReturn(w, TRUE)
       ELSE /\ sc' = [sc EXCEPT ![w] = [@ EXCEPT !.pc = "cellcheck", !.ci = 0]]
            /\ UNCHANGED progress
    /\ UNCHANGED <<gantry_pos, serialVars, tr, debVars, scan_cancel, gridVars, serverVars,
                   hist>>

\* head of the loop over the row's cells, the cell's cancellation check, and
\* the move to the cell (none for the first cell of the scan)
ScanCellCheck(w) ==
    LET s == sc[w]
    IN  /\ s.pc = "cellcheck"
        /\ IF s.ci >= cols
           THEN /\ sc' = [sc EXCEPT ![w] = [s EXCEPT !.pc = "rowcheck",
                                                     !.r = @ + 1]]
                /\ UNCHANGED <<gantry_pos, tr, wire, dev, hist, progress>>
           ELSE IF IsCancelled
           THEN /\ ScanReturn(w, TRUE)
                /\ UNCHANGED <<gantry_pos, tr, wire, dev, hist>>
           ELSE IF s.r = 0 /\ s.ci = 0
           THEN /\ EnterCell(w, [s EXCEPT !.started = @ + 1])
                /\ UNCHANGED <<gantry_pos, tr, wire, dev, hist>>
           ELSE /\ CmdMoveXY(w, CellMove(s.r, s.ci)[1], CellMove(s.r, s.ci)[2])
                /\ sc' = [sc EXCEPT ![w] =
                             [s EXCEPT !.pc = "move", !.started = @ + 1,
                                       !.requested =
                                           Append(@, CellMove(s.r, s.ci))]]
                /\ UNCHANGED progress
        /\ UNCHANGED <<rx, faults, debVars, scan_cancel, gridVars, serverVars>>

\* cmd_move_xy has returned or raised
ScanMoveDone(w) ==
    /\ sc[w].pc = "move"
    /\ tr[w].ph = "ret"
    /\ tr' = [tr EXCEPT ![w] = IdleCall]
    /\ IF tr[w].res = "None" THEN EnterCell(w, sc[w]) ELSE ScanFail(w, tr[w].res)
    /\ UNCHANGED <<gantry_pos, serialVars, debVars, scan_cancel, gridVars, serverVars, hist>>

\* what one pass of detect_plant_for_duration's loop gets from the camera and
\* the detector: a failed read, a frame with a plant, a frame without
FrameKinds == {"fail", "hit", "miss"}

RECURSIVE SeqsUpTo(_, _)
SeqsUpTo(S, n) ==
    IF n = 0 THEN {<<>>}
    ELSE LET shorter == SeqsUpTo(S, n - 1)
         IN  shorter \cup {Append(q, x) : q \in shorter, x \in S}

\* the frames one dwell can see: at least one (the first pass of the loop
\* starts before any time has passed)
FrameSeqs == SeqsUpTo(FrameKinds, MaxFrames) \ {<<>>}

\* detect_plant_for_duration over the frames its duration holds, from debouncer
\* d: a failed read returns False (line 256), a trigger returns True, the end
\* of the duration returns False
RECURSIVE DetectPlant(_, _, _)
DetectPlant(d, frames, t) ==
    IF frames = <<>> THEN FALSE
    ELSE IF Head(frames) = "fail" THEN FALSE
    ELSE LET u == DebUpdate(d, Head(frames) = "hit", t)
         IN  IF u.triggered THEN TRUE ELSE DetectPlant(u.deb, Tail(frames), t)

\* lines 357-363: the dwell on the cell (it looks at no flag and sends
\* nothing); a plant found is counted and reported and the pump command
\* goes out
ScanFound(w, found) ==
    /\ sc[w].pc = "dwell"
    /\ IF found
       THEN /\ sc' = [sc EXCEPT ![w] =
                         [@ EXCEPT !.pc = "pump", !.plants_found = @ + 1]]
            /\ Report(w, "found")
            /\ CmdPumpOn(w, WATER_MS)
       ELSE /\ NextCell(w)
            /\ UNCHANGED <<tr, wire, dev, hist, progress>>
    /\ UNCHANGED <<gantry_pos, rx, faults, debVars, scan_cancel, gridVars, serverVars>>

\* the dwell over the given frames
ScanDwellOn(w, frames) == ScanFound(w, DetectPlant(NewDebouncer, frames, now))

\* what detect_plant_for_duration can return for the frames a dwell may hold
DwellResults == {DetectPlant(NewDebouncer, frames, now) : frames \in FrameSeqs}

ScanDwell(w) ==
    /\ sc[w].pc = "dwell"
    /\ \E found \in DwellResults : ScanFound(w, found)

\* cmd_pump_on has returned (then the 0.2 s sleep) or raised
ScanPumpDone(w) ==
    /\ sc[w].pc = "pump"
    /\ tr[w].ph = "ret"
    /\ tr' = [tr EXCEPT ![w] = IdleCall]
    /\ IF tr[w].res = "None"
       THEN NextCell(w) /\ UNCHANGED progress
       ELSE ScanFail(w, tr[w].res)
    /\ UNCHANGED <<gantry_pos, serialVars, debVars, scan_cancel, gridVars, serverVars, hist>>

\* cancel_event.set(): every run_scan under way notes how many cells it has begun
CancelSet ==
    /\ scan_cancel' = TRUE
    /\ sc' = [w \in Workers |->
                 IF sc[w].pc \notin {"idle", "done"} /\ sc[w].cancelAt = -1
                 THEN [sc[w] EXCEPT !.cancelAt = sc[w].started]
                 ELSE sc[w]]

\* ------------------------------------------------------------------------
\* server.py: movement
\* ------------------------------------------------------------------------
Directions == {"UP", "DOWN", "LEFT", "RIGHT"}

DIRECTION_MAP(d) ==
    CASE d = "UP"    -> <<0, -JOG_STEP_MM>>
      [] d = "DOWN"  -> <<0, JOG_STEP_MM>>
      [] d = "LEFT"  -> <<-JOG_STEP_MM, 0>>
      [] d = "RIGHT" -> <<JOG_STEP_MM, 0>>

Slots == {"j1", "j2"}

\* A task made by asyncio.create_task(execute_move(..)) or (execute_home()):
\* pc is where it stands (created: not yet run), from and alone are history:
\* the tracked position when its command was accepted, and whether no other
\* motion operation has been pending or under way since.
IdleTask ==
    [pc |-> "none", kind |-> "-", direction |-> "-", from |-> <<0, 0>>,
     alone |-> FALSE]

\* ser and ser.is_open; SCAN_AVAILABLE; _raw_cmd_move_xy is not None
SerialOpen == TRUE
SCAN_AVAILABLE == TRUE
MovementAvailable == TRUE

ScanActive(w) == es[w].pc \in {"created", "running"} \/ sc[w].pc \notin {"idle", "done"}
MotionPending == \E j \in Slots : task[j].pc # "none"
NoMotion == ~MotionPending /\ \A w \in Workers : ~ScanActive(w)

FreeSlot == CHOOSE j \in Slots : task[j].pc = "none" /\ tr[j].ph = "idle"
HasFreeSlot == \E j \in Slots : task[j].pc = "none" /\ tr[j].ph = "idle"
FreeWorker == CHOOSE w \in Workers : es[w].pc # "off" /\ ~ScanActive(w)
HasFreeWorker == \E w \in Workers : es[w].pc # "off" /\ ~ScanActive(w)

\* another motion operation appears: no task pending or under way is alone
Disturbed(tk) ==
    [j \in Slots |-> IF tk[j].pc # "none" THEN [tk[j] EXCEPT !.alone = FALSE]
                     ELSE tk[j]]

CreateTask(kind, direction) ==
    task' = [Disturbed(task) EXCEPT ![FreeSlot] =
                [pc |-> "created", kind |-> kind, direction |-> direction,
                 from |-> gantry_pos, alone |-> NoMotion]]

\* the delta execute_home asks for (lines 292-294)
HomeDeltaSame(pos) == <<pos[1], pos[2]>>
HomeDelta(pos) == <<-pos[1], -pos[2]>>

\* websocket.send(text) as the direct answer to the message being handled
Respond(text) == conn' = [conn EXCEPT !.response = text, !.answers = @ + 1]

\* process_command's first test (line 312)
ControlsLockedNever == FALSE
ControlsLocked == scan_in_progress

\* process_command(cmd_raw), and the send of the string it returns (line 554)
ProcessCommand(cmd) ==
    IF ControlsLocked
    THEN /\ Respond("Scan in progress - controls locked")
         /\ UNCHANGED <<task, pending_direction>>
    ELSE IF ~SerialOpen
    THEN /\ Respond("Serial not connected")
         /\ UNCHANGED <<task, pending_direction>>
    ELSE IF cmd \in Directions
    THEN IF ~MovementAvailable
         THEN /\ Respond("Movement not available (missing cv_work module)")
              /\ UNCHANGED <<task, pending_direction>>
         ELSE IF move_in_progress
         THEN /\ pending_direction' = cmd
              /\ Respond("Moving...")
              /\ UNCHANGED task
         ELSE /\ HasFreeSlot
              /\ CreateTask("move", cmd)
              /\ Respond("Moving <direction>...")
              /\ UNCHANGED pending_direction
    ELSE IF cmd = "CALIBRATE"
    THEN IF ~MovementAvailable
         THEN /\ Respond("Movement not available (missing cv_work module)")
              /\ UNCHANGED <<task, pending_direction>>
         ELSE IF move_in_progress
         THEN /\ Respond("Busy - try again")
              /\ UNCHANGED <<task, pending_direction>>
         ELSE IF LtEps(Abs(gantry_pos[1]) + Abs(gantry_pos[2]))
         THEN /\ Respond("Already at home (0,0)")
              /\ UNCHANGED <<task, pending_direction>>
         ELSE /\ HasFreeSlot
              /\ CreateTask("home", "-")
              /\ Respond("Homing to (0,0)...")
              /\ UNCHANGED pending_direction
    ELSE /\ Respond("Unknown command")
         /\ UNCHANGED <<task, pending_direction>>

\* the finally of execute_move
MoveFinallyStuck(j) ==
    /\ UNCHANGED move_in_progress
    /\ pending_direction' = "None"
    /\ task' = [task EXCEPT ![j] = IdleTask]

MoveFinally(j) ==
    /\ move_in_progress' = FALSE
    /\ pending_direction' = "None"
    /\ task' = [task EXCEPT ![j] = IdleTask]

\* execute_move runs up to its first await: the flags are set and the move is
\* handed to an executor thread
ExecMoveStart(j) ==
    /\ task[j].pc = "created" /\ task[j].kind = "move"
    /\ move_in_progress' = TRUE
    /\ pending_direction' = "None"
    /\ CmdMoveXY(j, DIRECTION_MAP(task[j].direction)[1],
                    DIRECTION_MAP(task[j].direction)[2])
    /\ task' = [task EXCEPT ![j].pc = "moving"]
    /\ UNCHANGED <<rx, faults, debVars, sc, scan_cancel, gridVars, progress,
                   scan_in_progress, es, conn, msgs, clock, schedule_data>>

\* the executor's future is done: an exception ends the task, else stale
\* commands are dropped and the task sleeps 0.15 s
ExecMoveReturn(j) ==
    /\ task[j].pc = "moving" /\ task[j].kind = "move"
    /\ tr[j].ph = "ret"
    /\ tr' = [tr EXCEPT ![j] = IdleCall]
    /\ IF tr[j].res # "None"
       THEN MoveFinally(j)
       ELSE /\ pending_direction' = "None"
            /\ task' = [task EXCEPT ![j].pc = "sleeping"]
            /\ UNCHANGED move_in_progress
    /\ UNCHANGED <<gantry_pos, serialVars, hist, debVars, sc, scan_cancel,
                   gridVars, progress, scan_in_progress, es, conn, msgs, clock,
                   schedule_data>>

\* the sleep is over: a direction that arrived meanwhile is chained, else the
\* task ends
ExecMoveWake(j) ==
    /\ task[j].pc = "sleeping"
    /\ IF pending_direction # "None"
       THEN /\ pending_direction' = "None"
            /\ CmdMoveXY(j, DIRECTION_MAP(pending_direction)[1],
                            DIRECTION_MAP(pending_direction)[2])
            /\ task' = [task EXCEPT ![j].pc = "moving",
                                    ![j].direction = pending_direction]
            /\ UNCHANGED move_in_progress
       ELSE /\ MoveFinally(j)
            /\ UNCHANGED <<gantry_pos, tr, wire, dev, hist>>
    /\ UNCHANGED <<rx, faults, debVars, sc, scan_cancel, gridVars, progress,
                   scan_in_progress, es, conn, msgs, clock, schedule_data>>

\* execute_home runs up to its await, or to its end when already at the origin
ExecHomeStart(j) ==
    /\ task[j].pc = "created" /\ task[j].kind = "home"
    /\ IF GtEps(HomeDelta(gantry_pos)[1]) \/ GtEps(HomeDelta(gantry_pos)[2])
       THEN /\ move_in_progress' = TRUE
            /\ CmdMoveXY(j, HomeDelta(gantry_pos)[1], HomeDelta(gantry_pos)[2])
            /\ task' = [task EXCEPT ![j].pc = "moving"]
       ELSE /\ move_in_progress' = FALSE
            /\ task' = [task EXCEPT ![j] = IdleTask]
            /\ UNCHANGED <<gantry_pos, tr, wire, dev, hist>>
    /\ UNCHANGED <<rx, faults, debVars, sc, scan_cancel, gridVars, progress,
                   scan_in_progress, pending_direction, es, conn, msgs, clock,
                   schedule_data>>

\* the homing move has returned or raised
ExecHomeReturn(j) ==
    /\ task[j].pc = "moving" /\ task[j].kind = "home"
    /\ tr[j].ph = "ret"
    /\ tr' = [tr EXCEPT ![j] = IdleCall]
    /\ move_in_progress' = FALSE
    /\ task' = [task EXCEPT ![j] = IdleTask]
    /\ UNCHANGED <<gantry_pos, serialVars, hist, debVars, sc, scan_cancel,
                   gridVars, progress, scan_in_progress, pending_direction, es,
                   conn, msgs, clock, schedule_data>>

\* ------------------------------------------------------------------------
\* server.py: scan execution, scheduler, connection
\* ------------------------------------------------------------------------
\* An execute_scan (kind ws) or execute_scheduled_scan (kind sched) coroutine
\* with its run_scan worker of the same name; logged and sent are history: the
\* times it has written the watered log, the texts it has sent to its client.
IdleExec == [pc |-> "none", kind |-> "-", logged |-> 0, sent |-> <<>>]
OffExec == [IdleExec EXCEPT !.pc = "off"]

Dates == 0..MaxDate
Minutes == 0..MaxMinute
WeekdayOf(date) == date % 7

\* schedule_data["watered_log"][date_key] = time_str; save_schedules
LogWatered(log, c) ==
    {e \in log : e[1] # c.date} \cup {<<c.date, c.hhmm>>}

\* datetime.now(): the clock holds the time last read, a read returns that
\* time or a later one
Later(t) ==
    {u \in [date : Dates, hhmm : Minutes] :
        u.date > t.date \/ (u.date = t.date /\ u.hhmm >= t.hhmm)}

\* lines 384-390 and 432-438 of the two scan coroutines
WriteWateredLog ==
    \E t \in Later(clock) :
        /\ clock' = t
        /\ schedule_data' =
              [schedule_data EXCEPT !.watered_log = LogWatered(@, t)]

\* websocket.send raises ConnectionClosed once the client is gone
SendFails == conn.st # "open"

\* execute_scan runs up to its first await: flags, queue, worker thread
ExecScanStart(s) ==
    /\ es[s].pc = "created"
    /\ scan_in_progress' = TRUE
    /\ scan_cancel' = FALSE
    /\ es' = [es EXCEPT ![s].pc = "running"]
    /\ sc' = [sc EXCEPT ![s] = StartedScan("queue")]
    /\ progress' = [progress EXCEPT ![s] = <<"starting">>]
    /\ UNCHANGED <<gantry_pos, serialVars, tr, hist, debVars, gridVars,
                   move_in_progress, pending_direction, task, conn, msgs, clock,
                   schedule_data>>

\* except ConnectionClosed: scan_cancel.set(); finally: scan_in_progress = False
ExecScanClosed(s) ==
    /\ CancelSet
    /\ scan_in_progress' = FALSE
    /\ es' = [es EXCEPT ![s].pc = "ended"]

\* one progress message is taken from the queue and sent on
ExecScanForward(s) ==
    /\ es[s].pc = "running" /\ es[s].kind = "ws"
    /\ progress[s] # <<>>
    /\ IF SendFails
       THEN /\ ExecScanClosed(s)
            /\ progress' = [progress EXCEPT ![s] = <<>>]
       ELSE /\ progress' = [progress EXCEPT ![s] = Tail(@)]
            /\ es' = [es EXCEPT ![s].sent = Append(@, Head(progress[s]))]
            /\ UNCHANGED <<sc, scan_cancel, scan_in_progress>>
    /\ UNCHANGED <<gantry_pos, serialVars, tr, hist, debVars, gridVars,
                   move_in_progress, pending_direction, task, conn, msgs, clock,
                   schedule_data>>

\* lines 368-374: the loops that forward the queue are left when the worker's
\* future is done and the queue is empty
DrainedAnyway(s) == TRUE
Drained(s) == progress[s] = <<>>

\* the worker is done and the queue drained: the result is handled
ExecScanResult(s) ==
    /\ es[s].pc = "running" /\ es[s].kind = "ws"
    /\ sc[s].pc = "done"
    /\ Drained(s)
    /\ IF sc[s].error # "None" \/ sc[s].cancelled
       THEN \* "Scan error: ..." or "Scan cancelled" is sent
            /\ UNCHANGED <<schedule_data, clock>>
            /\ IF SendFails
               THEN ExecScanClosed(s)
               ELSE /\ scan_in_progress' = FALSE
                    /\ es' = [es EXCEPT
                                 ![s].pc = "ended",
                                 ![s].sent =
                                     Append(@, IF sc[s].error # "None"
                                               THEN "Scan error: ..."
                                               ELSE "Scan cancelled")]
                    /\ UNCHANGED <<sc, scan_cancel>>
       ELSE \* the log is written, then "Water all complete" is sent
            /\ WriteWateredLog
            /\ IF SendFails
               THEN CancelSet
               ELSE UNCHANGED <<sc, scan_cancel>>
            /\ scan_in_progress' = FALSE
            /\ es' = [es EXCEPT
                         ![s].pc = "ended", ![s].logged = @ + 1,
                         ![s].sent = IF SendFails THEN @
                                     ELSE Append(@, "Water all complete")]
    /\ UNCHANGED <<gantry_pos, serialVars, tr, hist, debVars, gridVars, progress,
                   move_in_progress, pending_direction, task, conn, msgs>>

\* execute_scheduled_scan from its call to its await on the worker thread
StartScheduledScan ==
    /\ scan_in_progress' = TRUE
    /\ scan_cancel' = FALSE
    /\ es' = [es EXCEPT ![FreeWorker] =
                 [IdleExec EXCEPT !.pc = "running", !.kind = "sched"]]
    /\ sc' = [sc EXCEPT ![FreeWorker] = StartedScan("print")]
    /\ task' = Disturbed(task)

\* the scheduler awaits execute_scheduled_scan: it ticks only between scans
SchedulerIdle == \A w \in Workers : ~(es[w].kind = "sched" /\ es[w].pc = "running")

\* scheduler_loop, lines 464-466: the times scheduled for the day of t
AllTimes(t) ==
    schedule_data.weekly[WeekdayOf(t.date)] \cup schedule_data.date_specific[t.date]

\* line 471: today_key in schedule_data["watered_log"]
AlreadyRanNever(date) == FALSE
AlreadyRan(date) == \E e \in schedule_data.watered_log : e[1] = date

\* the tick's console line and the scans the scheduler has started on the
\* tick's date (up to 2) go to the history
Ticked(t, line) ==
    hist' = [hist EXCEPT !.tick = line,
                         !.triggers[t.date] =
                             IF line = "starting scan" THEN Min2(2, @ + 1) ELSE @]

\* scheduler_loop wakes from its 30 s sleep
SchedulerTick ==
    /\ SchedulerIdle
    /\ \E t \in Later(clock) :
        /\ clock' = t
        /\ IF scan_in_progress \/ ~SCAN_AVAILABLE \/ ~SerialOpen
           THEN /\ Ticked(t, "skipping")
                /\ UNCHANGED <<scan_in_progress, scan_cancel, es, sc, task>>
           ELSE IF t.hhmm \notin AllTimes(t)
           THEN /\ Ticked(t, "checking")
                /\ UNCHANGED <<scan_in_progress, scan_cancel, es, sc, task>>
           ELSE IF AlreadyRan(t.date)
           THEN /\ Ticked(t, "already ran today")
                /\ UNCHANGED <<scan_in_progress, scan_cancel, es, sc, task>>
           ELSE /\ HasFreeWorker
                /\ Ticked(t, "starting scan")
                /\ StartScheduledScan
    /\ UNCHANGED <<gantry_pos, serialVars, tr, debVars, gridVars, progress,
                   move_in_progress, pending_direction, conn, msgs,
                   schedule_data>>

\* the scheduled scan's worker is done: the result is handled
ExecSchedResult(s) ==
    /\ es[s].pc = "running" /\ es[s].kind = "sched"
    /\ sc[s].pc = "done"
    /\ IF sc[s].error # "None" \/ sc[s].cancelled
       THEN /\ UNCHANGED <<schedule_data, clock>>
            /\ es' = [es EXCEPT ![s].pc = "ended"]
       ELSE /\ WriteWateredLog
            /\ es' = [es EXCEPT ![s].pc = "ended", ![s].logged = @ + 1]
    /\ scan_in_progress' = FALSE
    /\ UNCHANGED <<gantry_pos, serialVars, tr, hist, debVars, sc, scan_cancel,
                   gridVars, progress, move_in_progress, pending_direction, task,
                   conn, msgs>>

\* handle_connection, WATER_ALL
HandleWaterAll ==
    IF scan_in_progress
    THEN /\ Respond("Scan already in progress")
         /\ UNCHANGED <<es, task>>
    ELSE IF ~SCAN_AVAILABLE
    THEN /\ Respond("Scanning not available (missing ultralytics)")
         /\ UNCHANGED <<es, task>>
    ELSE IF ~SerialOpen
    THEN /\ Respond("Serial not connected")
         /\ UNCHANGED <<es, task>>
    ELSE /\ HasFreeWorker
         /\ es' = [es EXCEPT ![FreeWorker] =
                      [IdleExec EXCEPT !.pc = "created", !.kind = "ws"]]
         /\ conn' = [conn EXCEPT !.scan_task = FreeWorker,
                                 !.response = "Starting scan...",
                                 !.answers = @ + 1]
         /\ task' = Disturbed(task)

\* handle_connection, CANCEL_SCAN
HandleCancelScan ==
    IF scan_in_progress
    THEN /\ CancelSet
         /\ Respond("Cancelling scan...")
    ELSE /\ Respond("No scan running")
         /\ UNCHANGED <<sc, scan_cancel>>

\* The text after "SET_SCHEDULES " as json.loads sees it: text that does not
\* parse, a JSON value that is no object, or an object that has some of the
\* keys weekly and date_specific.  A time that is no HH:MM string is -1.
NoPayload ==
    [json |-> "invalid", has |-> {},
     weekly |-> [d \in 0..6 |-> {}], date_specific |-> [d \in Dates |-> {}]]

Payloads ==
    { NoPayload,
      [NoPayload EXCEPT !.json = "number"],
      [NoPayload EXCEPT !.json = "object", !.has = {"weekly"},
                        !.weekly = [d \in 0..6 |-> {-1}]],
      [NoPayload EXCEPT !.json = "object", !.has = {"date_specific"},
                        !.date_specific = [d \in Dates |-> {0}]] }

\* handle_connection, SET_SCHEDULES: json.loads raises on text that does not
\* parse, `"weekly" in payload` raises on a number; otherwise the fields the
\* payload has are stored as they are, the file is rewritten and the schedules
\* are broadcast to the connected clients
HandleSetSchedules(payload) ==
    IF payload.json # "object"
    THEN /\ Respond("Schedule error: ...")
         /\ UNCHANGED schedule_data
    ELSE /\ schedule_data' =
              [schedule_data EXCEPT
                  !.weekly = IF "weekly" \in payload.has
                             THEN payload.weekly ELSE @,
                  !.date_specific = IF "date_specific" \in payload.has
                                    THEN payload.date_specific ELSE @]
         /\ Respond("SCHEDULES ...")

\* handle_connection, GET_SCHEDULES
HandleGetSchedulesSilent == UNCHANGED conn
HandleGetSchedules == Respond("SCHEDULES ...")

\* the messages the client sends
Commands ==
    {"RIGHT", "UP", "CALIBRATE", "WATER_ALL", "CANCEL_SCAN", "GET_SCHEDULES",
     "SET_SCHEDULES", "HELLO"}

PayloadsOf(cmd) == IF cmd = "SET_SCHEDULES" THEN Payloads ELSE {NoPayload}

\* handle_connection: one message of the client is received and handled
HandleMessage(cmd, payload) ==
    /\ conn.st = "open"
    /\ msgs > 0
    /\ msgs' = msgs - 1
    /\ IF cmd = "GET_SCHEDULES"
       THEN /\ HandleGetSchedules
            /\ UNCHANGED <<sc, scan_cancel, es, task, pending_direction,
                           schedule_data>>
       ELSE IF cmd = "SET_SCHEDULES"
       THEN /\ HandleSetSchedules(payload)
            /\ UNCHANGED <<sc, scan_cancel, es, task, pending_direction>>
       ELSE IF cmd = "WATER_ALL"
       THEN /\ HandleWaterAll
            /\ UNCHANGED <<sc, scan_cancel, pending_direction, schedule_data>>
       ELSE IF cmd = "CANCEL_SCAN"
       THEN /\ HandleCancelScan
            /\ UNCHANGED <<es, task, pending_direction, schedule_data>>
       ELSE /\ ProcessCommand(cmd)
            /\ UNCHANGED <<sc, scan_cancel, es, schedule_data>>
    /\ UNCHANGED <<gantry_pos, serialVars, tr, hist, debVars, gridVars, progress,
                   scan_in_progress, move_in_progress, clock>>

ClientMessage ==
    \E cmd \in Commands : \E payload \in PayloadsOf(cmd) :
        HandleMessage(cmd, payload)

\* scan_task and not scan_task.done()
ScanTaskPending ==
    /\ conn.scan_task # "None"
    /\ es[conn.scan_task].kind = "ws"
    /\ es[conn.scan_task].pc \in {"created", "running"}

\* the client goes away
ClientDisconnect ==
    /\ conn.st = "open"
    /\ conn' = [conn EXCEPT
                  !.st = "closed",
                  !.at = IF ScanTaskPending
                            /\ sc[conn.scan_task].pc \notin {"idle", "done"}
                         THEN "scanning" ELSE "idle"]
    /\ UNCHANGED <<gantry_pos, serialVars, tr, hist, debVars, sc, scan_cancel,
                   gridVars, progress, scan_in_progress, move_in_progress,
                   pending_direction, task, es, msgs, clock, schedule_data>>

\* handle_connection's finally, up to its wait for the scan task
HandlerFinally ==
    /\ conn.st = "closed"
    /\ IF ScanTaskPending
       THEN /\ CancelSet
            /\ conn' = [conn EXCEPT !.st = "waiting"]
       ELSE /\ conn' = [conn EXCEPT !.st = "gone"]
            /\ UNCHANGED <<sc, scan_cancel>>
    /\ UNCHANGED <<gantry_pos, serialVars, tr, hist, debVars, gridVars, progress,
                   scan_in_progress, move_in_progress, pending_direction, task,
                   es, msgs, clock, schedule_data>>

\* the wait is over: the scan task is done, or 10 s have passed and it is
\* cancelled (CancelledError at its await, its finally runs; a task that never
\* ran is dropped)
HandlerWaitOver ==
    /\ conn.st = "waiting"
    /\ conn' = [conn EXCEPT !.st = "gone"]
    /\ IF ~ScanTaskPending
       THEN UNCHANGED <<es, scan_in_progress>>
       ELSE IF es[conn.scan_task].pc = "created"
       THEN /\ es' = [es EXCEPT ![conn.scan_task] = IdleExec]
            /\ UNCHANGED scan_in_progress
       ELSE /\ es' = [es EXCEPT ![conn.scan_task].pc = "ended"]
            /\ scan_in_progress' = FALSE
    /\ UNCHANGED <<gantry_pos, serialVars, tr, hist, debVars, sc, scan_cancel,
                   gridVars, progress, move_in_progress, pending_direction, task,
                   msgs, clock, schedule_data>>

\* ------------------------------------------------------------------------
\* server.py: ThreadedCamera
\* ------------------------------------------------------------------------
\* send_video and detect_plant_for_duration read the camera
Consumers == {"video", "scan"}

\* what cv2.VideoCapture.read() and ThreadedCamera.read() hand out: a flag and
\* a frame (src: the capture it shows, 0 for None; marked: drawn on since)
NoFrame == [src |-> 0, marked |-> FALSE]
NothingRead == [ok |-> FALSE, frame |-> NoFrame]

\* ThreadedCamera.__init__
InitCam ==
    cam = [ok |-> FALSE, frame |-> NoFrame, n |-> 0, good |-> 0,
           got |-> [c \in Consumers |-> NothingRead]]

\* one pass of _reader's loop: a capture that succeeds or fails, stored as it is
CamCapture ==
    /\ cam.n < MaxCaptures
    /\ \E ok \in BOOLEAN :
          cam' = [cam EXCEPT
                     !.n = @ + 1,
                     !.ok = ok,
                     !.frame = IF ok THEN [src |-> cam.n + 1, marked |-> FALSE]
                               ELSE NoFrame,
                     !.good = IF ok THEN cam.n + 1 ELSE @]
    /\ UNCHANGED <<gantry_pos, serialVars, tr, hist, debVars, sc, scan_cancel,
                   rows, cols, progress, serverVars>>

\* read(): (False, None) while _frame is None, else the flag and a copy
CamRead(c) ==
    /\ cam' = [cam EXCEPT
                  !.got[c] = IF cam.frame = NoFrame THEN NothingRead
                             ELSE [ok |-> cam.ok, frame |-> cam.frame]]
    /\ UNCHANGED <<gantry_pos, serialVars, tr, hist, debVars, sc, scan_cancel,
                   rows, cols, progress, serverVars>>

\* a consumer draws on the frame it was handed (cv2.putText in
\* detect_plant_for_duration)
ConsumerDraw(c) ==
    /\ cam.got[c].frame # NoFrame
    /\ cam' = [cam EXCEPT !.got[c].frame.marked = TRUE]
    /\ UNCHANGED <<gantry_pos, serialVars, tr, hist, debVars, sc, scan_cancel,
                   rows, cols, progress, serverVars>>

\* ------------------------------------------------------------------------
\* Initial states
\* ------------------------------------------------------------------------
InitSerial ==
    /\ rx = <<>>
    /\ dev = [op |-> "none", ack |-> FALSE]
    /\ faults = 0
    /\ wire = <<>>
    /\ tr = [c \in Callers |-> IdleCall]
    /\ hist = [faultInWait |-> {}, sentAfter |-> {}, timeouts |-> 0,
               tick |-> "none", triggers |-> [d \in 0..MaxDate |-> 0]]

InitDeb ==
    /\ deb = NewDebouncer
    /\ now = StartTime
    /\ dstat = [n |-> 0, streak |-> 0, events |-> 0, firstAt |-> 0,
                lastAt |-> 0, last |-> "none", missNow |-> 0, missMax |-> 0]

InitNoScan ==
    /\ sc = [w \in Workers |-> IdleScan]
    /\ scan_cancel = FALSE
    /\ rows = ROWS /\ cols = COLS
    /\ InitCam
    /\ progress = [w \in Workers |-> <<>>]

\* the globals of server.py when its module has been loaded, and a client
\* connected
InitServerBut ==
    /\ scan_in_progress = FALSE
    /\ move_in_progress = FALSE
    /\ pending_direction = "None"
    /\ task = [j \in Slots |-> IdleTask]
    /\ es = [w \in Workers |-> IF w = "s1" THEN IdleExec ELSE OffExec]
    /\ conn = [st |-> "open", scan_task |-> "None", response |-> "None",
               answers |-> 0, at |-> "-"]
    /\ clock = [date |-> 0, hhmm |-> 0]
    /\ schedule_data = [weekly |-> [d \in 0..6 |-> {1}],
                        date_specific |-> [d \in Dates |-> {}],
                        watered_log |-> {}]

InitServer == InitServerBut /\ msgs = MaxMsgs

\* ------------------------------------------------------------------------
\* SpecMove: one caller issuing clamped moves with arbitrary deltas
\* ------------------------------------------------------------------------
MoveDeltas ==
    {-GANTRY_MAX_X_MM, 0, STEP_X_MM, GANTRY_MAX_X_MM}

InitMove ==
    /\ gantry_pos = <<0, 0>>
    /\ InitSerial /\ InitDeb /\ InitNoScan /\ InitServer

MoveCall ==
    /\ tr["j1"].ph \in {"idle", "ret"}
    /\ \E dx \in MoveDeltas, dy \in MoveDeltas : CmdMoveXY("j1", dx, dy)
    /\ UNCHANGED <<rx, faults, debVars, sc, scan_cancel, gridVars, serverVars, progress>>

NextMove ==
    \/ MoveCall
    \/ WaitForPoll("j1")
    \/ WaitForTimeout("j1")
    \/ DeviceAccept
    \/ DeviceComplete
    \/ DeviceFault

SpecMove == InitMove /\ [][NextMove]_vars

\* ------------------------------------------------------------------------
\* SpecDeb: one debouncer fed arbitrary observations at arbitrary times
\* ------------------------------------------------------------------------
InitDebSpec ==
    /\ gantry_pos = <<0, 0>>
    /\ InitSerial /\ InitDeb /\ InitNoScan /\ InitServer

NextDeb ==
    \/ DebObserve
    \/ ClockTick

SpecDeb == InitDebSpec /\ [][NextDeb]_vars

\* ------------------------------------------------------------------------
\* SpecCam: the camera's reader thread and two consumers
\* ------------------------------------------------------------------------
NextCam ==
    \/ CamCapture
    \/ \E c \in Consumers :
          \/ CamRead(c)
          \/ ConsumerDraw(c)

SpecCam == InitDebSpec /\ [][NextCam]_vars

\* ------------------------------------------------------------------------
\* SpecScan: one run_scan(ser, cap, model, cancel_event=...) on the shipped
\* grid, from the position a started server or a finished scan leaves
\* ------------------------------------------------------------------------
ScanStarts ==
    {<<0, 0>>, <<(COLS - 1) * STEP_X_MM, (ROWS - 1) * STEP_Y_MM>>}

InitScan ==
    /\ gantry_pos \in ScanStarts
    /\ InitSerial /\ InitDeb
    /\ sc = [w \in Workers |-> IF w = "s1" THEN StartedScan("none") ELSE IdleScan]
    /\ scan_cancel = FALSE
    /\ rows = ROWS /\ cols = COLS
    /\ InitCam
    /\ progress = [w \in Workers |-> <<>>]
    /\ InitServer

CancelRequest ==
    /\ ~scan_cancel
    /\ CancelSet
    /\ UNCHANGED <<gantry_pos, serialVars, tr, debVars, gridVars, serverVars, progress, hist>>

NextScan ==
    \/ ScanRowCheck("s1")
    \/ ScanCellCheck("s1")
    \/ ScanMoveDone("s1")
    \/ ScanDwell("s1")
    \/ ScanPumpDone("s1")
    \/ WaitForPoll("s1")
    \/ WaitForTimeout("s1")
    \/ DeviceAccept
    \/ DeviceComplete
    \/ DeviceFault
    \/ CancelRequest

SpecScan == InitScan /\ [][NextScan]_vars

\* ------------------------------------------------------------------------
\* Spec: the server and one client: jog and home tasks and scans on a small
\* grid; the device answers late or never, and reports no fault
\* ------------------------------------------------------------------------
StartPositions ==
    {<<0, 0>>, <<GANTRY_MAX_X_MM - JOG_STEP_MM, GANTRY_MAX_Y_MM>>}

Init ==
    /\ gantry_pos \in StartPositions
    /\ InitSerial /\ InitDeb /\ InitServer
    /\ sc = [w \in Workers |-> IdleScan]
    /\ scan_cancel = FALSE
    /\ rows = GridRows /\ cols = GridCols
    /\ InitCam
    /\ progress = [w \in Workers |-> <<>>]

Next ==
    \/ ClientMessage
    \/ ClientDisconnect
    \/ HandlerFinally
    \/ HandlerWaitOver
    \/ \E j \in Slots :
          \/ ExecMoveStart(j)
          \/ ExecMoveReturn(j)
          \/ ExecMoveWake(j)
          \/ ExecHomeStart(j)
          \/ ExecHomeReturn(j)
    \/ \E s \in Workers :
          \/ ExecScanStart(s)
          \/ ExecScanForward(s)
          \/ ExecScanResult(s)
          \/ ScanRowCheck(s)
          \/ ScanCellCheck(s)
          \/ ScanMoveDone(s)
          \/ ScanDwell(s)
          \/ ScanPumpDone(s)
    \/ \E c \in Callers :
          \/ WaitForPoll(c)
          \/ WaitForTimeout(c)
    \/ DeviceAccept
    \/ DeviceComplete

Spec == Init /\ [][Next]_vars

\* ------------------------------------------------------------------------
\* SpecSched: the same with the scheduler, and a client that sends one message
\* ------------------------------------------------------------------------
InitSched ==
    /\ gantry_pos \in StartPositions
    /\ InitSerial /\ InitDeb
    /\ InitServerBut
    /\ msgs = 1
    /\ sc = [w \in Workers |-> IdleScan]
    /\ scan_cancel = FALSE
    /\ rows = GridRows /\ cols = GridCols
    /\ InitCam
    /\ progress = [w \in Workers |-> <<>>]

NextSched ==
    \/ Next
    \/ SchedulerTick
    \/ \E s \in Workers : ExecSchedResult(s)

SpecSched == InitSched /\ [][NextSched]_vars

\* ------------------------------------------------------------------------
\* SpecFault: the server without the scheduler, a client that sends one
\* message, and a device that may also report a fault
\* ------------------------------------------------------------------------
NextFault ==
    \/ Next
    \/ DeviceFault

SpecFault == InitSched /\ [][NextFault]_vars

\* ------------------------------------------------------------------------
\* SpecOverlap: the server from the moment it has answered a client's
\* WATER_ALL, with the scheduler and two worker threads; the client sends
\* nothing more, the device answers every command in time
\* ------------------------------------------------------------------------
InitOverlap ==
    /\ gantry_pos = <<0, 0>>
    /\ InitSerial /\ InitDeb
    /\ scan_in_progress = FALSE
    /\ move_in_progress = FALSE
    /\ pending_direction = "None"
    /\ task = [j \in Slots |-> IdleTask]
    /\ es = [w \in Workers |->
                IF w = "s1" THEN [IdleExec EXCEPT !.pc = "created", !.kind = "ws"]
                ELSE IdleExec]
    /\ conn = [st |-> "open", scan_task |-> "s1",
               response |-> "Starting scan...", answers |-> 1, at |-> "-"]
    /\ msgs = 0
    /\ clock = [date |-> 0, hhmm |-> 0]
    /\ schedule_data = [weekly |-> [d \in 0..6 |-> {1}],
                        date_specific |-> [d \in Dates |-> {}],
                        watered_log |-> {}]
    /\ sc = [w \in Workers |-> IdleScan]
    /\ scan_cancel = FALSE
    /\ rows = GridRows /\ cols = GridCols
    /\ InitCam
    /\ progress = [w \in Workers |-> <<>>]

NextOverlap ==
    \/ ClientDisconnect
    \/ HandlerFinally
    \/ HandlerWaitOver
    \/ SchedulerTick
    \/ \E s \in Workers :
          \/ ExecScanStart(s)
          \/ ExecScanForward(s)
          \/ ExecScanResult(s)
          \/ ExecSchedResult(s)
          \/ ScanRowCheck(s)
          \/ ScanCellCheck(s)
          \/ ScanMoveDone(s)
          \/ ScanDwell(s)
          \/ ScanPumpDone(s)
          \/ WaitForPoll(s)
    \/ DeviceAccept
    \/ DeviceComplete

SpecOverlap == InitOverlap /\ [][NextOverlap]_vars

\* ------------------------------------------------------------------------
\* Clamped move: C2, C3
\* ------------------------------------------------------------------------
\* a step in which caller c may be entering a call: it was in none and its
\* call record changes
MayCall(c) ==
    /\ tr[c].ph \in {"idle", "ret"}
    /\ tr'[c] # tr[c]

\* a step in which caller c calls cmd_move_xy(ser, dx, dy)
IsMoveCall(c, dx, dy) ==
    /\ MayCall(c)
    /\ CmdMoveXY(c, dx, dy)

ActualDx == gantry_pos'[1] - gantry_pos[1]
ActualDy == gantry_pos'[2] - gantry_pos[2]

ExactOrToLimit(p, d, a, max) ==
    IF p + d > max THEN a = max - p
    ELSE IF p + d < 0 THEN a = -p
    ELSE a = d

\* C2: the actual delta of a clamped move equals the requested delta on every
\* axis whose target p+d is inside the bounds, and is exactly the distance from
\* p to the limit on an axis that would overshoot, each axis on its own.
C2_ClampExact ==
    [][\A c \in Callers : MayCall(c) =>
        \A dx \in MoveDeltas, dy \in MoveDeltas :
          IsMoveCall(c, dx, dy) =>
              /\ ExactOrToLimit(gantry_pos[1], dx, ActualDx, GANTRY_MAX_X_MM)
              /\ ExactOrToLimit(gantry_pos[2], dy, ActualDy, GANTRY_MAX_Y_MM)]_vars

\* a move requested as (+75, -400) at (375, 0) went out as (+25, 0): clamped to
\* the limit on x, to nothing on y
C2_Witness ==
    /\ tr["j1"].ph = "accept"
    /\ wire = <<"MOVE", "XY", 25, 0>>
    /\ gantry_pos = <<GANTRY_MAX_X_MM, 0>>

\* what a clamped move that was performed can hand to its caller
PerformedResults == {"None", "RuntimeError", "TimeoutError"}

SendsActualOrNothing(c) ==
    IF IsBlocked(ActualDx, ActualDy)
    THEN /\ wire' = wire /\ dev' = dev
         /\ tr'[c].ph = "ret"
         /\ tr'[c].res \notin {"RuntimeError", "TimeoutError"}
    ELSE /\ wire' = <<"MOVE", "XY", ActualDx, ActualDy>>
         /\ tr'[c].ph = "accept"

\* C3 as stated: the MOVE sent carries the actual delta; a move whose actual
\* delta is within epsilon of zero sends nothing, raises nothing, and hands its
\* caller a result no performed move produces.
C3_BlockedObservable ==
    [][\A c \in Callers : MayCall(c) =>
        \A dx \in MoveDeltas, dy \in MoveDeltas :
          IsMoveCall(c, dx, dy) =>
              /\ SendsActualOrNothing(c)
              /\ (tr'[c].blocked => tr'[c].res \notin PerformedResults)]_vars

\* C3 as the code has it: the MOVE sent carries the actual delta; a move whose
\* actual delta is within epsilon of zero sends nothing, raises nothing, and
\* returns to its caller the value a completed move returns (None).
C3_SendsActualDelta ==
    [][\A c \in Callers : MayCall(c) =>
        \A dx \in MoveDeltas, dy \in MoveDeltas :
          IsMoveCall(c, dx, dy) =>
              /\ SendsActualOrNothing(c)
              /\ (tr'[c].blocked <=> IsBlocked(ActualDx, ActualDy))
              /\ (tr'[c].blocked => tr'[c].res = "None")]_vars

\* a move of +75 on x requested at the upper x limit returned without sending:
\* the wire still holds the earlier MOVE that reached the limit
C3_Witness ==
    /\ tr["j1"].ph = "ret" /\ tr["j1"].blocked /\ tr["j1"].res = "None"
    /\ gantry_pos = <<GANTRY_MAX_X_MM, 0>>
    /\ wire = <<"MOVE", "XY", 25, 0>>

\* ------------------------------------------------------------------------
\* Debouncer: C10
\* ------------------------------------------------------------------------
\* every observation fed so far was true
AllTrueSoFar == dstat.streak = dstat.n

\* C10: from a fresh Off debouncer with the cooldown elapsed, k consecutive
\* true observations produce no event when k < ON_HITS and exactly one event,
\* reported on the ON_HITS-th observation, when k >= ON_HITS.
C10_ConsecutiveHits ==
    AllTrueSoFar =>
        /\ dstat.n < ON_HITS => dstat.events = 0
        /\ dstat.n >= ON_HITS => dstat.events = 1 /\ dstat.firstAt = ON_HITS

C10_Witness ==
    /\ AllTrueSoFar
    /\ dstat.n = ON_HITS + 2
    /\ dstat.events = 1
    /\ deb.state_on

\* a step in which the debouncer reports a "new plant" event
NewPlantEvent == dstat'.events > dstat.events

\* the hit threshold is met again within COOLDOWN_S of the last event, and no
\* run of misses since that event reached OFF_MISSES
SecondRunInCooldown ==
    /\ dstat.events >= 1
    /\ now - dstat.lastAt < COOLDOWN_S
    /\ dstat.missMax >= 1 /\ dstat.missMax < OFF_MISSES
    /\ deb.hit_count >= ON_HITS

\* C11: two "new plant" events of one debouncer are never less than COOLDOWN_S
\* apart; in particular no event is reported within COOLDOWN_S of the last one
\* after runs of misses that all stayed shorter than OFF_MISSES.
C11_CooldownApart ==
    [][/\ (NewPlantEvent /\ dstat.events >= 1) =>
             /\ now - dstat.lastAt >= COOLDOWN_S
             /\ dstat'.lastAt - dstat.lastAt >= COOLDOWN_S
       /\ SecondRunInCooldown => ~NewPlantEvent]_vars

\* after the first event and OFF_MISSES misses the debouncer is Off with the
\* hit threshold met again, and the cooldown alone holds the event back
C11_Witness ==
    /\ dstat.events = 1
    /\ ~deb.state_on
    /\ deb.hit_count >= ON_HITS
    /\ now - dstat.lastAt < COOLDOWN_S

\* a step in which the debouncer is fed an observation
Observes == dstat'.n = dstat.n + 1

\* C29: update reports an event exactly on the observations that change the
\* state from Off to On; the state changes from On to Off exactly when
\* miss_count reaches OFF_MISSES while On, and that observation reports no
\* event; observations that leave the state On or leave it Off report none.
C29_EventsOnEdges ==
    [][Observes =>
          /\ NewPlantEvent <=> (~deb.state_on /\ deb'.state_on)
          /\ (deb.state_on /\ ~deb'.state_on) <=>
                (deb.state_on /\ deb'.miss_count = OFF_MISSES)
          /\ (deb.state_on /\ ~deb'.state_on) => ~NewPlantEvent
          /\ (deb'.state_on = deb.state_on) => ~NewPlantEvent]_vars

\* the debouncer has gone On, reporting its one event, and Off again on the
\* OFF_MISSES-th miss
C29_Witness ==
    /\ dstat.events = 1
    /\ ~deb.state_on
    /\ deb.miss_count = OFF_MISSES /\ dstat.missNow = OFF_MISSES
    /\ dstat.last = "miss"

\* C30: hit_count and miss_count are never both positive: after a true
\* observation miss_count is 0 and hit_count has increased by one, after a
\* false observation hit_count is 0 and miss_count has increased by one.
C30_CountersExclusive ==
    /\ [](~(deb.hit_count > 0 /\ deb.miss_count > 0))
    /\ [][Observes =>
            IF dstat'.last = "hit"
            THEN deb'.miss_count = 0 /\ deb'.hit_count = deb.hit_count + 1
            ELSE deb'.hit_count = 0 /\ deb'.miss_count = deb.miss_count + 1]_vars

\* hits have followed misses that followed hits
C30_Witness ==
    /\ deb.hit_count = 2 /\ deb.miss_count = 0
    /\ dstat.last = "hit"
    /\ dstat.missMax >= 2
    /\ dstat.events = 1

\* ------------------------------------------------------------------------
\* run_scan: C6, C7, C9
\* ------------------------------------------------------------------------
Returned(w) == sc[w].pc = "done"

\* the closed form of the boustrophedon order: the i-th cell observed, and the
\* move requested to reach the (i+1)-th
ExpectedVisits ==
    [i \in 1..(rows * cols) |->
        LET r == (i - 1) \div cols
            k == (i - 1) % cols
        IN  <<r, IF r % 2 = 0 THEN k ELSE cols - 1 - k>>]

ExpectedMoves ==
    [i \in 1..(rows * cols - 1) |->
        LET r == i \div cols
            k == i % cols
        IN  IF k = 0 THEN <<0, STEP_Y_MM>>
            ELSE IF r % 2 = 0 THEN <<STEP_X_MM, 0>> ELSE <<-STEP_X_MM, 0>>]

\* C9: a scan that completes normally has visited the ROWS x COLS cells in
\* boustrophedon order, each once, and has requested exactly ROWS*COLS-1
\* moves: +STEP_X within even rows, -STEP_X within odd rows, (0,+STEP_Y)
\* between rows; no move is requested before the first cell is visited.
C9_Boustrophedon ==
    /\ sc["s1"].visited = <<>> => sc["s1"].requested = <<>>
    /\ (Returned("s1") /\ ~sc["s1"].cancelled /\ sc["s1"].error = "None") =>
        /\ sc["s1"].visited = ExpectedVisits
        /\ sc["s1"].requested = ExpectedMoves
        /\ Len(sc["s1"].requested) = ROWS * COLS - 1
        /\ Cardinality({sc["s1"].visited[i] : i \in DOMAIN sc["s1"].visited})
              = ROWS * COLS

C9_Witness ==
    /\ Returned("s1") /\ ~sc["s1"].cancelled /\ sc["s1"].error = "None"
    /\ sc["s1"].plants_found = 2
    /\ Len(sc["s1"].requested) = ROWS * COLS - 1
    /\ gantry_pos = <<(COLS - 1) * STEP_X_MM, (ROWS - 1) * STEP_Y_MM>>

\* the cancel flag was set after cell N was begun and before cell N+1 was,
\* for a cell N that has a successor
CancelledAfterCell(w) ==
    /\ sc[w].cancelAt >= 1
    /\ sc[w].cancelAt < rows * cols

\* the outcome C6 and the spec promise for a flag set after cell N: no later
\* cell begun, cancelled, N cells scanned, no error
StoppedAfter(w, n) ==
    /\ sc[w].started = n
    /\ sc[w].cancelled
    /\ sc[w].cells_scanned = n
    /\ sc[w].error = "None"

\* C6 as stated: if the cancel flag is set after cell N has started and before
\* cell N+1 starts, no move for a later cell is issued and the scan returns
\* cancelled=true, cells_scanned=N, error empty.
C6_CancelBetweenCells ==
    (Returned("s1") /\ CancelledAfterCell("s1")) =>
        StoppedAfter("s1", sc["s1"].cancelAt)

\* C6 as amended: the same, for a scan whose move or pump in progress when the
\* flag was set did not raise; when it raised, no later cell is begun either,
\* and the scan returns the error with cancelled=false.
C6_CancelUnlessFailed ==
    (Returned("s1") /\ CancelledAfterCell("s1")) =>
        /\ sc["s1"].started = sc["s1"].cancelAt
        /\ IF sc["s1"].error = "None"
           THEN StoppedAfter("s1", sc["s1"].cancelAt)
           ELSE ~sc["s1"].cancelled

C6_Witness ==
    /\ Returned("s1")
    /\ sc["s1"].cancelAt = 7
    /\ StoppedAfter("s1", 7)
    /\ sc["s1"].plants_found = 1

\* C7: once the device has emitted a fault line while the scan awaited a move
\* or pump transaction, the scan sends no further command and returns with
\* error set and cancelled=false; and at return exactly one of normal
\* completion, cancellation and error holds.
C7_FaultAbortsScan ==
    /\ "s1" \in hist.faultInWait =>
          /\ "s1" \notin hist.sentAfter
          /\ Returned("s1") =>
                sc["s1"].error # "None" /\ ~sc["s1"].cancelled
    /\ Returned("s1") =>
          (sc["s1"].error # "None" => ~sc["s1"].cancelled)

\* ------------------------------------------------------------------------
\* The server: C1, C4, C5, C8
\* ------------------------------------------------------------------------
InFlight(c) == tr[c].ph \in {"accept", "complete"}

\* C1: whatever jog, home and scan moves have been issued, in whatever
\* interleaving and whether or not their serial exchanges succeeded, the
\* tracked position satisfies 0 <= x <= MAX_X and 0 <= y <= MAX_Y.
C1_PositionInBounds ==
    /\ 0 <= gantry_pos[1] /\ gantry_pos[1] <= GANTRY_MAX_X_MM
    /\ 0 <= gantry_pos[2] /\ gantry_pos[2] <= GANTRY_MAX_Y_MM

\* a jog has reached the far corner and is still in flight when a scan's move
\* is blocked there
C1_Witness ==
    /\ gantry_pos = <<GANTRY_MAX_X_MM, GANTRY_MAX_Y_MM>>
    /\ \E j \in Slots : task[j].kind = "move" /\ InFlight(j)
    /\ tr["s1"].blocked

\* the step in which the task of an accepted CALIBRATE runs execute_home
HomeStarts(j) ==
    /\ task[j].pc = "created" /\ task[j].kind = "home"
    /\ task'[j].pc # "created"

\* a step that handles CALIBRATE
IsCalibrate == msgs' # msgs /\ HandleMessage("CALIBRATE", NoPayload)

\* C4: with no other motion operation pending or under way since it was
\* accepted, CALIBRATE from (x,y) other than the origin issues exactly one
\* move, of delta (-x,-y), and the tracked position is then (0,0); CALIBRATE at
\* (0,0) makes no task and issues no move.
C4_HomeDelta ==
    [][/\ \A j \in Slots :
            /\ (HomeStarts(j) /\ task[j].alone) =>
                  /\ task[j].from # <<0, 0>>
                  /\ wire' = <<"MOVE", "XY", -task[j].from[1], -task[j].from[2]>>
                  /\ tr'[j].ph = "accept"
                  /\ gantry_pos' = <<0, 0>>
            /\ (task[j].kind = "home" /\ task[j].pc = "moving" /\ task[j].alone) =>
                  /\ wire' = wire
                  /\ gantry_pos' = <<0, 0>>
       /\ (gantry_pos = <<0, 0>> /\ NoMotion /\ IsCalibrate) =>
            /\ task' = task
            /\ wire' = wire
            /\ gantry_pos' = gantry_pos]_vars

C4_Witness ==
    /\ \E j \in Slots :
          /\ task[j].kind = "home" /\ task[j].pc = "moving" /\ task[j].alone
          /\ task[j].from = <<GANTRY_MAX_X_MM - JOG_STEP_MM, GANTRY_MAX_Y_MM>>
          /\ InFlight(j)
    /\ wire = <<"MOVE", "XY", JOG_STEP_MM - GANTRY_MAX_X_MM, -GANTRY_MAX_Y_MM>>
    /\ gantry_pos = <<0, 0>>

\* a worker's run_scan has been entered and has not yet begun a cell
JustStarted(w) == sc[w].pc \notin {"idle", "done"} /\ sc[w].started = 0

\* C5: at most one MOVE or PUMP transaction is in flight at any time: a jog or
\* home move never overlaps a scan's move or pump, and no scan starts while a
\* jog or home move is in flight.
C5_OneTransaction ==
    /\ Cardinality({c \in Callers : InFlight(c)}) <= 1
    /\ \A j \in Slots, w \in Workers :
          InFlight(j) => ~InFlight(w) /\ ~JustStarted(w)

\* the invocation on s is over: its coroutine has ended and its worker returned
Over(s) == es[s].pc = "ended" /\ sc[s].pc = "done"

NormalResult(s) == ~sc[s].cancelled /\ sc[s].error = "None"

\* C8: an invocation of a scan, interactive or scheduled, has written the
\* watered log exactly once if its scan returned neither cancelled nor with an
\* error, and not at all otherwise.
C8_LoggedIffNormal ==
    \A s \in Workers :
        /\ es[s].logged <= 1
        /\ Over(s) => (es[s].logged = 1 <=> NormalResult(s))

\* ------------------------------------------------------------------------
\* The scheduler: C12, C13, C14
\* ------------------------------------------------------------------------
\* a step in which a scan of the scheduler starts on worker w
SchedStarts(w) ==
    /\ es[w].pc # "running"
    /\ es'[w].pc = "running" /\ es'[w].kind = "sched"

SchedStartsScan == \E w \in Workers : SchedStarts(w)

\* none of the conditions on which a tick is to skip holds
NoSkipCondition ==
    /\ ~scan_in_progress /\ ~move_in_progress
    /\ SCAN_AVAILABLE /\ SerialOpen

\* the watered log has an entry for the date
LoggedOn(date) == \E e \in schedule_data.watered_log : e[1] = date

\* the time the tick read is among the weekday's recurring times or the
\* date's one-off times
TimeMatches(t) ==
    \/ t.hhmm \in schedule_data.weekly[t.date % 7]
    \/ t.hhmm \in schedule_data.date_specific[t.date]

\* C12: a tick on which no skip condition holds starts a scan if and only if
\* the current HH:MM is among the weekday's recurring or the date's one-off
\* times and the watered log has no entry for today; once the log has an entry
\* for today no tick of that day starts a scan.
C12_TickStartsIff ==
    [][/\ (SchedulerTick /\ NoSkipCondition) =>
             (SchedStartsScan <=> (TimeMatches(clock') /\ ~LoggedOn(clock'.date)))
       /\ (SchedulerTick /\ LoggedOn(clock'.date)) => ~SchedStartsScan]_vars

\* an interactive scan has written today's entry, and a later tick at a
\* scheduled time has found it and started nothing
C12_Witness ==
    /\ hist.tick = "already ran today"
    /\ TimeMatches(clock) /\ LoggedOn(clock.date)
    /\ \E s \in Workers : es[s].kind = "ws" /\ es[s].logged = 1
    /\ hist.triggers[clock.date] = 0

\* C13: the scheduler starts at most one scan per calendar date, whatever the
\* outcome of the scan it started.
C13_OncePerDate == \A d \in Dates : hist.triggers[d] <= 1

\* C14: no tick starts a scan while a scan is in progress, while a jog or home
\* motion is in progress, while detection is unavailable or while the serial
\* link is not connected.
C14_TickSkips == [][SchedStartsScan => NoSkipCondition]_vars

\* ------------------------------------------------------------------------
\* The serial transactions: C15, C16
\* ------------------------------------------------------------------------
\* C15: a move or pump transaction during which the device emitted a line
\* beginning with ERR or FAULT before the transaction's completion line ends
\* with RemoteFault (RuntimeError), never with success and never with Timeout,
\* however the lines are grouped into reads.
C15_FaultPreempts ==
    \A c \in Callers :
        (tr[c].ph = "ret" /\ tr[c].faulted) => tr[c].res = "RuntimeError"

\* a step in which caller c sends a MOVE command
SendsMove(c) ==
    /\ MayCall(c)
    /\ tr'[c].ph = "accept" /\ tr'[c].op = "MOVE"

\* lines of a MOVE the device has emitted and the host has not read
UnreadMoveLines ==
    {i \in DOMAIN rx : rx[i] \in {OkLine("MOVE"), DoneLine("MOVE")}}

\* C16: no MOVE is sent while the device is still executing an earlier command
\* or while acceptance or completion lines of an earlier MOVE are still to be
\* read, however late the device replies.
C16_MovesSequential ==
    [][\A c \in Callers :
          SendsMove(c) => dev.op = "none" /\ UnreadMoveLines = {}]_vars

\* ------------------------------------------------------------------------
\* The busy flags: C17, C18, C19
\* ------------------------------------------------------------------------
\* a step in which the jog or home task j ends, having run
TaskEnds(j) == task[j].pc \in {"moving", "sleeping"} /\ task'[j].pc = "none"

\* a step in which the scan coroutine s ends
ScanEnds(s) == es[s].pc = "running" /\ es'[s].pc = "ended"

\* a jog or home task, a scan coroutine, that is running and will yet pass
\* through its finally
TaskRunning == \E j \in Slots : task[j].pc \in {"moving", "sleeping"}
ExecRunning == \E s \in Workers : es[s].pc = "running"

ActiveMotions == {j \in Slots : task[j].pc # "none"}

\* C18: at most one jog chain or home operation is active at any time,
\* including one whose task has been created and has not yet started to run.
C18_OneJogOrHome == Cardinality(ActiveMotions) <= 1

\* the commands that are refused while a scan is in progress
LockedCommands == Commands \cap (Directions \cup {"CALIBRATE", "WATER_ALL"})

\* a step in which the message cmd of the client is handled
Handles(cmd) == msgs' # msgs /\ HandleMessage(cmd, NoPayload)

RejectedAsScanning ==
    conn'.response \in
        {"Scan in progress - controls locked", "Scan already in progress"}

\* C19: while the scan-in-progress flag is set, every direction command,
\* CALIBRATE and WATER_ALL is answered with a refusal and starts no move, home
\* or scan, is not kept as the pending direction, and leaves the tracked
\* position unchanged.
C19_RejectedWhileScan ==
    [][\A cmd \in LockedCommands :
          (scan_in_progress /\ Handles(cmd)) =>
              /\ RejectedAsScanning
              /\ task' = task /\ es' = es /\ sc' = sc
              /\ wire' = wire /\ tr' = tr
              /\ gantry_pos' = gantry_pos
              /\ pending_direction' = pending_direction]_vars

\* a direction command was refused while the scan's move was in flight
C19_Witness ==
    /\ scan_in_progress
    /\ conn.response = "Scan in progress - controls locked"
    /\ sc["s1"].pc = "move" /\ InFlight("s1")
    /\ pending_direction = "None"
    /\ ActiveMotions = {}

\* ------------------------------------------------------------------------
\* The schedules: C20
\* ------------------------------------------------------------------------
\* the payload parses to an object whose weekly and date_specific fields map
\* days and dates to collections of HH:MM times
WellFormed(payload) ==
    /\ payload.json = "object"
    /\ \A d \in DOMAIN payload.weekly : payload.weekly[d] \subseteq Minutes
    /\ \A d \in DOMAIN payload.date_specific :
          payload.date_specific[d] \subseteq Minutes

\* a step in which SET_SCHEDULES with the payload is handled
SetsSchedules(payload) ==
    msgs' # msgs /\ HandleMessage("SET_SCHEDULES", payload)

\* C20: SET_SCHEDULES with a malformed payload is answered with an error
\* message and leaves the schedule data, in memory and as persisted,
\* unchanged.
C20_MalformedRejected ==
    [][\A payload \in Payloads :
          (~WellFormed(payload) /\ SetsSchedules(payload)) =>
              /\ conn'.response = "Schedule error: ..."
              /\ schedule_data' = schedule_data]_vars

\* C25: a move or pump transaction that the device answered with its
\* acceptance line and then its completion line before any wait ran out, with
\* no fault line, returns successfully however the lines are grouped into
\* reads.
C25_AnsweredSucceeds ==
    \A c \in Callers :
        (tr[c].ph = "ret" /\ tr[c].answered /\ faults = 0) => tr[c].res = "None"

\* ------------------------------------------------------------------------
\* The dwell on a cell: C27, C28
\* ------------------------------------------------------------------------
\* the sequence holds ON_HITS consecutive positive detections
HasHitRun(q) ==
    \E i \in 1..(Len(q) - ON_HITS + 1) :
        \A k \in 0..(ON_HITS - 1) : q[i + k] = "hit"

\* the detections a dwell makes: one for every frame it reads
RECURSIVE Detections(_)
Detections(frames) ==
    IF frames = <<>> \/ Head(frames) = "fail" THEN <<>>
    ELSE <<Head(frames)>> \o Detections(Tail(frames))

\* a step in which the scan on w sends the pump command
SendsPump(w) ==
    /\ MayCall(w)
    /\ tr'[w].ph = "accept" /\ tr'[w].op = "PUMP"
    /\ wire' = <<"PUMP", "ON", WATER_MS>>

UnreadPumpLines ==
    {i \in DOMAIN rx : rx[i] \in {OkLine("PUMP"), DoneLine("PUMP")}}

\* C27: in a scan the pump is triggered for a cell, once, if and only if the
\* detections of that cell's own dwell hold ON_HITS consecutive positive ones,
\* whatever the dwells of earlier cells saw; and the pump transaction has
\* completed when the move to the next cell is issued.
C27_PumpPerCell ==
    [][/\ (sc["s1"].pc = "dwell" /\ sc'["s1"].pc # "dwell") =>
            \A frames \in FrameSeqs :
                ScanDwellOn("s1", frames) =>
                    (SendsPump("s1") <=> HasHitRun(Detections(frames)))
       /\ SendsPump("s1") =>
            /\ sc["s1"].pc = "dwell"
            /\ sc'["s1"].plants_found = sc["s1"].plants_found + 1
       /\ SendsMove("s1") => dev.op # "PUMP" /\ UnreadPumpLines = {}]_vars

\* the third cell is being watered, the first was watered before, and the
\* second was not
C27_Witness ==
    /\ sc["s1"].pc = "pump" /\ InFlight("s1")
    /\ sc["s1"].cells_scanned = 3
    /\ sc["s1"].plants_found = 2
    /\ wire = <<"PUMP", "ON", WATER_MS>>

\* a camera read of the dwell fails, and the reads after it show ON_HITS
\* consecutive positive detections
HitRunAfterFail(frames) ==
    \E i \in 1..Len(frames) :
        /\ frames[i] = "fail"
        /\ HasHitRun(SubSeq(frames, i + 1, Len(frames)))

\* C28: a failed camera read during a dwell is skipped: a plant confirmed by
\* ON_HITS consecutive detections after the failed read is still found.
C28_FailedReadSkipped ==
    [][(sc["s1"].pc = "dwell" /\ sc'["s1"].pc # "dwell") =>
          \A frames \in FrameSeqs :
              (HitRunAfterFail(frames) /\ ScanDwellOn("s1", frames)) =>
                  SendsPump("s1")]_vars

\* ------------------------------------------------------------------------
\* Jog chaining: C26
\* ------------------------------------------------------------------------
\* a jog chain is under way: its step move is in the executor or it sleeps
ChainRunning ==
    \E j \in Slots : task[j].kind = "move" /\ task[j].pc \in {"moving", "sleeping"}

\* the chain of task j goes into another step, in direction d
Chains(j, d) ==
    /\ task[j].pc = "sleeping" /\ task'[j].pc = "moving"
    /\ task'[j].direction = d
    /\ wire' = <<"MOVE", "XY", ActualDx, ActualDy>> \/ tr'[j].ph = "ret"

\* a step move of a chain ends with an error
StepFailed == \E j \in Slots : tr[j].ph = "ret" /\ tr[j].res # "None"

\* C26: a direction received while a jog chain runs, during the step move or
\* during the wait after it, stays slated until the chain's next step uses
\* it; with no direction slated at the end of the wait the chain stops and
\* move_in_progress becomes false.
C26_ReceivedIsChained ==
    [][/\ (ChainRunning /\ ~StepFailed /\ pending_direction # "None"
             /\ pending_direction' = "None") =>
            \E j \in Slots : Chains(j, pending_direction)
       /\ \A j \in Slots :
            (task[j].pc = "sleeping" /\ task'[j].pc # "sleeping"
               /\ pending_direction = "None") =>
                (task'[j].pc = "none" /\ ~move_in_progress')]_vars


\* ------------------------------------------------------------------------
\* The scan flag and the worker thread: C24
\* ------------------------------------------------------------------------
\* a run_scan execution is active on worker thread w
RunScanActive(w) == sc[w].pc \notin {"idle", "done"}

\* C24: scan_in_progress is true at every moment a run_scan execution is
\* active on a worker thread, also after the client has disconnected or a
\* send to it has failed.
C24_FlagWhileScanning ==
    \A w \in Workers : RunScanActive(w) => scan_in_progress


\* ------------------------------------------------------------------------
\* The requesting client goes away: C21
\* ------------------------------------------------------------------------
\* handle_connection has come to its finally for a client that went away
\* while the run_scan of its scan was under way
LeftWhileScanning == conn.at = "scanning" /\ conn.st \in {"waiting", "gone"}

\* handle_connection comes to its finally for a client that has no scan of
\* its own under way
OtherClientLeaves == conn.st = "closed" /\ conn'.st = "gone"

\* C21: when the client that started a scan goes away while the scan runs,
\* the cancel flag is set and stays set while that scan runs, the scan begins
\* no further cell and writes no watered-log entry; a client without a scan
\* of its own that goes away leaves the cancel flag and the scans as they are.
C21_DisconnectCancels ==
    /\ [](LeftWhileScanning =>
            /\ RunScanActive(conn.scan_task) => scan_cancel
            /\ es[conn.scan_task].logged = 0)
    /\ [][/\ LeftWhileScanning =>
               sc'[conn.scan_task].started = sc[conn.scan_task].started
          /\ OtherClientLeaves =>
               scan_cancel' = scan_cancel /\ sc' = sc]_vars


\* ------------------------------------------------------------------------
\* One direct answer per command: C22
\* ------------------------------------------------------------------------
\* the texts the server answers a command with
DirectAnswers(cmd) ==
    IF cmd = "GET_SCHEDULES" THEN {"SCHEDULES ..."}
    ELSE IF cmd = "SET_SCHEDULES" THEN {"SCHEDULES ...", "Schedule error: ..."}
    ELSE IF cmd = "WATER_ALL"
    THEN {"Starting scan...", "Scan already in progress",
          "Scanning not available (missing ultralytics)", "Serial not connected"}
    ELSE IF cmd = "CANCEL_SCAN" THEN {"Cancelling scan...", "No scan running"}
    ELSE {"Scan in progress - controls locked", "Serial not connected"} \cup
         (IF cmd \in Directions
          THEN {"Moving <direction>...", "Moving...",
                "Movement not available (missing cv_work module)"}
          ELSE IF cmd = "CALIBRATE"
          THEN {"Homing to (0,0)...", "Busy - try again", "Already at home (0,0)",
                "Movement not available (missing cv_work module)"}
          ELSE {"Unknown command"})

\* the server handles a message cmd of the client
Receives(cmd) ==
    msgs' # msgs /\ \E payload \in PayloadsOf(cmd) : HandleMessage(cmd, payload)

\* C22: every command, whatever the state, is answered with exactly one text
\* of its own before the next command is handled; nothing else counts as a
\* direct answer.
C22_OneAnswerEach ==
    /\ [](conn.answers + msgs = MaxMsgs)
    /\ [][/\ \A cmd \in Commands :
               Receives(cmd) =>
                   /\ conn'.answers = conn.answers + 1
                   /\ conn'.response \in DirectAnswers(cmd)
          /\ msgs' = msgs => conn'.answers = conn.answers]_vars

C22_Witness ==
    /\ conn.answers = 2 /\ msgs = 0
    /\ conn.st = "open"
    /\ conn.response = "Scan in progress - controls locked"
    /\ sc["s1"].pc = "dwell" /\ progress["s1"] # <<>>


\* ------------------------------------------------------------------------
\* The frame source: C23
\* ------------------------------------------------------------------------
\* C23: once a capture has succeeded, read() returns success and a copy of the
\* most recent successful frame (before that, failure), and what a consumer
\* reads or does with its copy leaves the other consumer's frame as it is.
C23_KeepsLastGood ==
    [][\A c \in Consumers :
          /\ CamRead(c) =>
               IF cam.good = 0 THEN cam'.got[c] = NothingRead
               ELSE cam'.got[c] =
                       [ok |-> TRUE, frame |-> [src |-> cam.good, marked |-> FALSE]]
          /\ (CamRead(c) \/ ConsumerDraw(c)) =>
               \A o \in Consumers \ {c} : cam'.got[o] = cam.got[o]]_vars


\* ------------------------------------------------------------------------
\* Scans from where the gantry stands: C31
\* ------------------------------------------------------------------------
\* the scan on worker w asks for the move to its next cell
ScanAsksMove(w) == sc[w].pc = "cellcheck" /\ sc'[w].pc = "move"

\* C31: from every position a scan can start at, the shipped grid's included,
\* no move the scan asks for is clamped or blocked: the tracked position
\* changes by the step asked for, so every cell is observed one step away from
\* the cell before it.
C31_ScanMovesUnclamped ==
    [][ScanAsksMove("s1") =>
          <<ActualDx, ActualDy>> = CellMove(sc["s1"].r, sc["s1"].ci)]_vars


\* ------------------------------------------------------------------------
\* Progress and outcome texts of an interactive scan: C33
\* ------------------------------------------------------------------------
\* the texts of the scan on s so far: those sent on, then those still queued
Emitted(s) == es[s].sent \o progress[s]

\* how often text t occurs in q
Occurs(q, t) == Cardinality({i \in DOMAIN q : q[i] = t})

\* the summary run_scan reports last, and the outcome execute_scan sends for it
SummaryOf(s) ==
    IF sc[s].error # "None" THEN "error"
    ELSE IF sc[s].cancelled THEN "cancelled" ELSE "finished"
OutcomeOf(s) ==
    IF sc[s].error # "None" THEN "Scan error: ..."
    ELSE IF sc[s].cancelled THEN "Scan cancelled" ELSE "Water all complete"

\* the client's scan on s1 has ended with the client still connected
EndedConnected ==
    es["s1"].kind = "ws" /\ es["s1"].pc = "ended" /\ conn.st = "open"

\* C33: while the client stays connected the texts of its scan grow only at
\* the end, one at a time, and none leaves them; when the scan has ended the
\* client has been sent the start line, one line per cell checked and per
\* watering, the summary, and last of all the outcome, with nothing queued.
C33_ProgressInOrder ==
    /\ [](EndedConnected =>
            LET q == es["s1"].sent
                n == Len(q)
            IN  /\ progress["s1"] = <<>>
                /\ n >= 3
                /\ q[1] = "starting"
                /\ q[n - 1] = SummaryOf("s1")
                /\ q[n] = OutcomeOf("s1")
                /\ Occurs(q, "checking") = sc["s1"].cells_scanned
                /\ Occurs(q, "found") = sc["s1"].plants_found
                /\ n = 3 + sc["s1"].cells_scanned + sc["s1"].plants_found)
    /\ [][(es["s1"].pc = "running" /\ es["s1"].kind = "ws"
             /\ conn.st = "open" /\ conn'.st = "open") =>
            /\ Len(Emitted("s1")') \in {Len(Emitted("s1")), Len(Emitted("s1")) + 1}
            /\ SubSeq(Emitted("s1")', 1, Len(Emitted("s1"))) = Emitted("s1")
            /\ Len(es'["s1"].sent) >= Len(es["s1"].sent)]_vars

C33_Witness ==
    /\ EndedConnected
    /\ es["s1"].sent = <<"starting", "checking", "found", "checking", "finished",
                         "Water all complete">>


\* ------------------------------------------------------------------------
\* CANCEL_SCAN: C32
\* ------------------------------------------------------------------------
\* the client's CANCEL_SCAN has been accepted (the client's last message)
CancelAccepted == conn.response = "Cancelling scan..."

\* the scan on s has not been reported complete and has written no log entry
NeverComplete(s) ==
    es[s].logged = 0 /\ Occurs(es[s].sent, "Water all complete") = 0

\* C32 as stated: a scan whose CANCEL_SCAN was accepted ends as cancelled, is
\* never reported as complete and writes no watered-log entry, whichever cell
\* it had reached.
C32_CancelledNeverComplete ==
    CancelAccepted =>
        /\ NeverComplete("s1")
        /\ Over("s1") => sc["s1"].cancelled

\* the flag was set while run_scan ran and before it began its last cell
CancelBeforeLastCell ==
    sc["s1"].cancelAt >= 0 /\ sc["s1"].cancelAt < rows * cols

\* C32 as amended: accepted before the last cell was begun, the command keeps
\* the scan from beginning another cell, from being reported complete and from
\* writing the log, and with the client connected the scan ends as cancelled,
\* or as an error when the move or pump in progress raised; accepted after the
\* last cell was begun, it leaves the scan to complete and be logged.
C32_CancelBeforeLast ==
    /\ (CancelAccepted /\ CancelBeforeLastCell) =>
          /\ NeverComplete("s1")
          /\ sc["s1"].started = sc["s1"].cancelAt
          /\ EndedConnected =>
                /\ es["s1"].sent[Len(es["s1"].sent)] \in
                       {"Scan cancelled", "Scan error: ..."}
                /\ sc["s1"].error = "None" => sc["s1"].cancelled
    /\ (CancelAccepted /\ sc["s1"].cancelAt = rows * cols /\ EndedConnected
          /\ sc["s1"].error = "None") =>
          /\ ~sc["s1"].cancelled
          /\ es["s1"].logged = 1
          /\ es["s1"].sent[Len(es["s1"].sent)] = "Water all complete"

C32_Witness ==
    /\ CancelAccepted /\ EndedConnected
    /\ sc["s1"].cancelAt = 1 /\ sc["s1"].cells_scanned = 1
    /\ sc["s1"].plants_found = 1
    /\ es["s1"].sent[Len(es["s1"].sent)] = "Scan cancelled"


====
